---- MODULE Spec2Model ----
(***************************************************************************)
(* Model of src/src/packed_vector.rs: the packed sparse vector PackedVec   *)
(* with gather, scatter, len, is_empty, mul_add and the inner product      *)
(* (impl Mul).                                                             *)
(*                                                                         *)
(* A Rust Vec is a TLA+ sequence; the element the code writes v[i]         *)
(* (0-based) is At(v, i) = v[i + 1].  Stored indices keep the 0-based      *)
(* values of the code.  f64 entries are modelled by integers, on which     *)
(* +, * and the comparison with 0.0 act as in the code for the bounded     *)
(* values used here.                                                       *)
(***************************************************************************)
EXTENDS Integers, Sequences, FiniteSets, TLC

\* Bounds of the model.
MaxLen == 3        \* longest dense array handed to gather
MaxVal == 1        \* dense entries are drawn from 0 .. MaxVal
MaxOps == 2        \* longest sequence of mul_add calls on one target

Vals == 0 .. MaxVal
Alphas == {-1, 0, 2}

DenseOfLen(len_) == [1 .. len_ -> Vals]
Dense == UNION {DenseOfLen(len_) : len_ \in 0 .. MaxLen}

VARIABLES
    x,            \* the target PackedVec (packed_x of the test)
    a,            \* the dense array x was gathered from
    warned,       \* whether gather printed its density warning
    y, b, alpha,  \* operand of the last mul_add (y = gather(b)) and its scalar
    x0,           \* x as it was when the last mul_add was called
    d,            \* dense reference: a, then d[i] += alpha * b[i] per mul_add
    rhs, c,       \* right operand of the last inner product (rhs = gather(c))
    product,      \* value returned by the last inner product
    full_len_v,   \* value returned by the last scatter
    n, empty,     \* values returned by the last len / is_empty
    op,           \* the operation performed last
    nops,         \* number of mul_add calls on x since it was gathered
    status        \* "ok", or the panic that ended the program

vars == <<x, a, warned, y, b, alpha, x0, d, rhs, c, product, full_len_v,
          n, empty, op, nops, status>>

----------------------------------------------------------------------------
\* Vec helpers

At(v, i) == v[i + 1]

\* Option<usize>
None == <<>>
Some(k) == <<k>>

----------------------------------------------------------------------------
\* PackedVec

new == [index |-> <<>>, data |-> <<>>, full_length |-> 0]

len(self) == Len(self.data)

is_empty(self) == Len(self.data) = 0

\* original.iter().enumerate().filter(|(_, &x)| x != 0.0), from position i on
RECURSIVE enumerate_filter(_, _)
enumerate_filter(original, i) ==
    IF i = Len(original) THEN <<>>
    ELSE IF At(original, i) # 0
         THEN <<(<<i, At(original, i)>>)>> \o enumerate_filter(original, i + 1)
         ELSE enumerate_filter(original, i + 1)

\* .unzip()
unzip(pairs) ==
    [index |-> [k \in 1 .. Len(pairs) |-> pairs[k][1]],
     data  |-> [k \in 1 .. Len(pairs) |-> pairs[k][2]]]

\* gather without its filter: every position is stored
gather_unfiltered(original) ==
    [index |-> [k \in 1 .. Len(original) |-> k - 1],
     data  |-> original,
     full_length |-> Len(original)]

gather(original) ==
    LET u == unzip(enumerate_filter(original, 0))
    IN  [index |-> u.index, data |-> u.data, full_length |-> Len(original)]

is_dense(original) ==
    LET u == unzip(enumerate_filter(original, 0))
    IN  Len(original) <= Len(u.index) + Len(u.data)

\* scatter writing at the packed slot kx instead of the position ix
scatter_store_at_slot(full_len_v_, self, kx) ==
    [full_len_v_ EXCEPT ![kx + 1] = At(self.data, kx)]

\* full_len_v[ix] = self.data[kx]
scatter_store(full_len_v_, self, kx) ==
    [full_len_v_ EXCEPT ![At(self.index, kx) + 1] = At(self.data, kx)]

RECURSIVE scatter_loop(_, _, _)
scatter_loop(full_len_v_, self, kx) ==
    IF kx = len(self) THEN full_len_v_
    ELSE scatter_loop(scatter_store(full_len_v_, self, kx), self, kx + 1)

scatter(self) ==
    scatter_loop([i \in 1 .. self.full_length |-> 0], self, 0)

\* An indexing full_len_v[ix] of scatter that is out of bounds.
scatter_panics(self) ==
    \E kx \in 0 .. len(self) - 1 : At(self.index, kx) >= self.full_length

----------------------------------------------------------------------------
\* mul_add

\* #1: tmp[iy] = Some(ky) for each entry of y_vec
RECURSIVE store_y_index(_, _, _)
store_y_index(tmp, y_vec, ky) ==
    IF ky = len(y_vec) THEN tmp
    ELSE store_y_index([tmp EXCEPT ![At(y_vec.index, ky) + 1] = Some(ky)],
                       y_vec, ky + 1)

\* The indexing tmp[iy] of #1 is out of bounds: the call panics before self
\* is touched.
mul_add_panics(self, y_vec) ==
    \E ky \in 0 .. len(y_vec) - 1 : At(y_vec.index, ky) >= self.full_length

\* a read of tmp[i] that leaves the scratch entry in place
take_keep(tmp, i) == tmp

\* tmp[i].take(): the scratch entry afterwards

take(tmp, i) == [tmp EXCEPT ![i + 1] = None]

\* the update of #2 without the factor alpha
add_scaled_unscaled(self, kx, y_vec, ky, alpha_) ==
    [self EXCEPT !.data[kx + 1] = @ + At(y_vec.data, ky)]

\* self.data[kx] += alpha * y_vec.data[ky]
add_scaled(self, kx, y_vec, ky, alpha_) ==
    [self EXCEPT !.data[kx + 1] = @ + alpha_ * At(y_vec.data, ky)]

\* #2: scan the entries of self that existed when the call began
RECURSIVE update_existing(_, _, _, _, _)
update_existing(self, tmp, y_vec, alpha_, kx) ==
    IF kx = len(self) THEN [self |-> self, tmp |-> tmp]
    ELSE LET ix == At(self.index, kx)
         IN  IF tmp[ix + 1] # None
             THEN update_existing(add_scaled(self, kx, y_vec, tmp[ix + 1][1], alpha_),
                                  take(tmp, ix), y_vec, alpha_, kx + 1)
             ELSE update_existing(self, tmp, y_vec, alpha_, kx + 1)

\* insertion of (i, v) before the first larger index
RECURSIVE push_sorted(_, _, _, _)
push_sorted(index_, data_, i, v) ==
    IF index_ = <<>> \/ i < Head(index_)
    THEN [index |-> <<i>> \o index_, data |-> <<v>> \o data_]
    ELSE LET r == push_sorted(Tail(index_), Tail(data_), i, v)
         IN  [index |-> <<Head(index_)>> \o r.index,
              data  |-> <<Head(data_)>> \o r.data]

\* the push of #3 placing the new entry in ascending position
push_entry_sorted(self, y_vec, ky, alpha_) ==
    LET r == push_sorted(self.index, self.data, At(y_vec.index, ky),
                         alpha_ * At(y_vec.data, ky))
    IN  [self EXCEPT !.index = r.index, !.data = r.data]

\* the push of #3 without the factor alpha
push_entry_unscaled(self, y_vec, ky, alpha_) ==
    [self EXCEPT !.data  = Append(@, At(y_vec.data, ky)),
                 !.index = Append(@, At(y_vec.index, ky))]

\* self.data.push(alpha * y_vec.data[ky]); self.index.push(iy)
push_entry(self, y_vec, ky, alpha_) ==
    [self EXCEPT !.data  = Append(@, alpha_ * At(y_vec.data, ky)),
                 !.index = Append(@, At(y_vec.index, ky))]

\* #3: scan y_vec and append the entries #2 did not consume
RECURSIVE fill_unexisting(_, _, _, _, _)
fill_unexisting(self, tmp, y_vec, alpha_, ky) ==
    IF ky = len(y_vec) THEN self
    ELSE LET iy == At(y_vec.index, ky)
         IN  IF tmp[iy + 1] # None
             THEN fill_unexisting(push_entry(self, y_vec, ky, alpha_),
                                  take(tmp, iy), y_vec, alpha_, ky + 1)
             ELSE fill_unexisting(self, tmp, y_vec, alpha_, ky + 1)

\* self after self.mul_add(&y_vec, alpha), for a call that does not panic
mul_add(self, y_vec, alpha_) ==
    LET tmp1 == store_y_index([i \in 1 .. self.full_length |-> None], y_vec, 0)
        r2   == update_existing(self, tmp1, y_vec, alpha_, 0)
    IN  fill_unexisting(r2.self, r2.tmp, y_vec, alpha_, 0)

----------------------------------------------------------------------------
\* impl Mul: inner product

\* the accumulation of the inner product as a plain assignment
accumulate_overwrite(product_, self, kx, rhs_, ky) ==
    At(self.data, kx) * At(rhs_.data, ky)

\* product += self.data[kx] * rhs.data[ky]
accumulate(product_, self, kx, rhs_, ky) ==
    product_ + At(self.data, kx) * At(rhs_.data, ky)

RECURSIVE mul_loop(_, _, _, _, _)
mul_loop(self, rhs_, product_, kx, ky) ==
    IF kx = len(self) \/ ky = len(rhs_) THEN product_
    ELSE LET ix == At(self.index, kx)
             iy == At(rhs_.index, ky)
         IN  IF ix = iy
             THEN mul_loop(self, rhs_, accumulate(product_, self, kx, rhs_, ky),
                           kx + 1, ky + 1)
             ELSE IF ix > iy
                  THEN mul_loop(self, rhs_, product_, kx, ky + 1)
                  ELSE mul_loop(self, rhs_, product_, kx + 1, ky)

mul(self, rhs_) == mul_loop(self, rhs_, 0, 0, 0)

----------------------------------------------------------------------------
\* The program: one target vector x and the operations applied to it.

Init ==
    /\ x = new
    /\ a = <<>>
    /\ warned = FALSE
    /\ y = new
    /\ b = <<>>
    /\ alpha = 0
    /\ x0 = new
    /\ d = <<>>
    /\ rhs = new
    /\ c = <<>>
    /\ product = 0
    /\ full_len_v = <<>>
    /\ n = 0
    /\ empty = TRUE
    /\ op = "new"
    /\ nops = 0
    /\ status = "ok"

\* The values a read left behind are dropped by the next operation.
NoReads ==
    /\ rhs' = new
    /\ c' = <<>>
    /\ product' = 0
    /\ full_len_v' = <<>>
    /\ n' = 0
    /\ empty' = TRUE

\* let mut packed_x = PackedVec::gather(&original)
Gather ==
    \E original \in Dense :
        /\ status = "ok"
        /\ x' = gather(original)
        /\ a' = original
        /\ warned' = is_dense(original)
        /\ d' = original
        /\ y' = new
        /\ b' = <<>>
        /\ alpha' = 0
        /\ x0' = new
        /\ NoReads
        /\ op' = "gather"
        /\ nops' = 0
        /\ UNCHANGED status

\* packed_x.mul_add(&PackedVec::gather(&original), alpha_)
MulAddCall(original, alpha_) ==
    LET y_vec == gather(original)
    IN  /\ status = "ok"
        /\ nops < MaxOps
        /\ y' = y_vec
        /\ b' = original
        /\ alpha' = alpha_
        /\ x0' = x
        /\ op' = "mul_add"
        /\ nops' = nops + 1
        /\ NoReads
        /\ UNCHANGED <<a, warned>>
        /\ IF mul_add_panics(x, y_vec)
           THEN /\ status' = "index out of bounds"
                /\ UNCHANGED <<x, d>>
           ELSE /\ x' = mul_add(x, y_vec, alpha_)
                /\ d' = [i \in 1 .. Len(d) |->
                           d[i] + (IF i <= Len(original)
                                   THEN alpha_ * original[i] ELSE 0)]
                /\ UNCHANGED status

\* mul_add with an operand of the target's full_length
MulAdd ==
    \E original \in DenseOfLen(x.full_length), alpha_ \in Alphas :
        MulAddCall(original, alpha_)

\* mul_add with an operand of any length
MulAddAnyLength ==
    \E original \in Dense, alpha_ \in Alphas :
        MulAddCall(original, alpha_)

\* packed_x.clone() * PackedVec::gather(&original)
MulCall(original) ==
    /\ status = "ok"
    /\ rhs' = gather(original)
    /\ c' = original
    /\ product' = mul(x, gather(original))
    /\ full_len_v' = <<>>
    /\ n' = 0
    /\ empty' = TRUE
    /\ op' = "mul"
    /\ UNCHANGED <<x, a, warned, y, b, alpha, x0, d, nops, status>>

Mul ==
    \E original \in DenseOfLen(x.full_length) : MulCall(original)

MulAnyLength ==
    \E original \in Dense : MulCall(original)

\* packed_x.scatter()
Scatter ==
    /\ status = "ok"
    /\ rhs' = new
    /\ c' = <<>>
    /\ product' = 0
    /\ n' = 0
    /\ empty' = TRUE
    /\ op' = "scatter"
    /\ UNCHANGED <<x, a, warned, y, b, alpha, x0, d, nops>>
    /\ IF scatter_panics(x)
       THEN /\ status' = "index out of bounds"
            /\ full_len_v' = <<>>
       ELSE /\ full_len_v' = scatter(x)
            /\ UNCHANGED status

\* packed_x.len()
LenCall ==
    /\ status = "ok"
    /\ rhs' = new
    /\ c' = <<>>
    /\ product' = 0
    /\ full_len_v' = <<>>
    /\ n' = len(x)
    /\ empty' = TRUE
    /\ op' = "len"
    /\ UNCHANGED <<x, a, warned, y, b, alpha, x0, d, nops, status>>

\* packed_x.is_empty()
IsEmptyCall ==
    /\ status = "ok"
    /\ rhs' = new
    /\ c' = <<>>
    /\ product' = 0
    /\ full_len_v' = <<>>
    /\ n' = 0
    /\ empty' = is_empty(x)
    /\ op' = "is_empty"
    /\ UNCHANGED <<x, a, warned, y, b, alpha, x0, d, nops, status>>

\* Every operand has the full_length of the target.
Next == Gather \/ MulAdd \/ Mul \/ Scatter \/ LenCall \/ IsEmptyCall

Spec == Init /\ [][Next]_vars

\* Operands of any length.
NextAnyLength ==
    Gather \/ MulAddAnyLength \/ MulAnyLength \/ Scatter \/ LenCall \/ IsEmptyCall

SpecAnyLength == Init /\ [][NextAnyLength]_vars

----------------------------------------------------------------------------
TypeOK ==
    /\ status \in {"ok", "index out of bounds"}
    /\ op \in {"new", "gather", "mul_add", "mul", "scatter", "len", "is_empty"}
    /\ nops \in 0 .. MaxOps
    /\ a \in Dense /\ b \in Dense /\ c \in Dense
    /\ x.full_length = Len(a)

----------------------------------------------------------------------------
\* Dense reference operations, for stating the properties.

Range(s) == {s[k] : k \in 1 .. Len(s)}

StrictlyIncreasing(s) == \A k \in 1 .. Len(s) - 1 : s[k] < s[k + 1]

Distinct(s) == \A j, k \in 1 .. Len(s) : j # k => s[j] # s[k]

\* positions (0-based) of the nonzero entries of a dense array
NonZero(v) == {i \in 0 .. Len(v) - 1 : At(v, i) # 0}

RECURSIVE SumTo(_, _)
SumTo(f, k) == IF k = 0 THEN 0 ELSE f[k] + SumTo(f, k - 1)

\* sum over all positions of u[i] * v[i]
DenseDot(u, v) == SumTo([i \in 1 .. Len(u) |-> u[i] * v[i]], Len(u))

\* the array u[i] + s * v[i]
DenseAxpy(u, v, s) == [i \in 1 .. Len(u) |-> u[i] + s * v[i]]

\* the value a packed vector stores at position i, 0 when it stores none
Stored(p, i) ==
    IF \E k \in 1 .. Len(p.index) : p.index[k] = i
    THEN p.data[CHOOSE k \in 1 .. Len(p.index) : p.index[k] = i]
    ELSE 0

----------------------------------------------------------------------------
\* C1 (accumulate correctness): for dense arrays a and b of the same length
\* and a scalar alpha, x = gather(a); x.mul_add(gather(b), alpha); x.scatter()
\* returns the array r with r[i] = a[i] + alpha * b[i] at every position.
C1_AccumulateCorrect ==
    (op = "scatter" /\ nops = 1) =>
        /\ Len(full_len_v) = Len(a)
        /\ \A i \in 1 .. Len(a) : full_len_v[i] = a[i] + alpha * b[i]

\* a scatter after one mul_add that both updated a stored entry and appended one
C1_Witness ==
    /\ op = "scatter" /\ nops = 1 /\ alpha = 2
    /\ \E i \in 1 .. Len(a) : a[i] # 0 /\ b[i] # 0
    /\ \E i \in 1 .. Len(a) : a[i] = 0 /\ b[i] # 0
    /\ \E i \in 1 .. Len(a) : a[i] # 0 /\ b[i] = 0

\* C2 (ascending invariant): after gather and after any sequence of mul_add
\* calls the stored index sequence of the target is strictly increasing.
C2_Ascending == StrictlyIncreasing(x.index)

\* C3 (dot correctness): for dense arrays a and c of the same length the inner
\* product gather(a) * gather(c) is the dense dot product sum a[i] * c[i]; it
\* is 0 when either vector is empty or no position is nonzero in both.
C3_DotCorrect ==
    (op = "mul" /\ nops = 0) =>
        /\ product = DenseDot(a, c)
        /\ (is_empty(x) \/ is_empty(rhs) \/ NonZero(a) \cap NonZero(c) = {})
               => product = 0

\* an inner product of gathered vectors that matched a position and skipped
\* entries on both sides
C3_Witness ==
    /\ op = "mul" /\ nops = 0 /\ product >= 1
    /\ NonZero(a) \ NonZero(c) # {}
    /\ NonZero(c) \ NonZero(a) # {}

\* C4 (round trip): for every dense array v, the empty and the all-zero ones
\* included, gather(v).scatter() equals v element for element and in length.
C4_RoundTrip ==
    (op = "scatter" /\ nops = 0) => full_len_v = a

\* a scatter of a gathered array whose first entry is zero and a later one not
C4_Witness ==
    /\ op = "scatter" /\ nops = 0
    /\ Len(a) >= 2 /\ a[1] = 0 /\ NonZero(a) # {}

\* C5 (domain mismatch): mul_add or the inner product invoked on two vectors
\* whose full_length values differ fails with an incompatible-length error; it
\* neither returns a result or modifies the target silently nor ends in an
\* index-out-of-range panic.
C5_DomainMismatch ==
    /\ (op = "mul_add" /\ x0.full_length # y.full_length)
           => status = "incompatible vector lengths"
    /\ (op = "mul" /\ x.full_length # rhs.full_length)
           => status = "incompatible vector lengths"

\* C6 (nonzero accounting): gather(v).len() is the number of nonzero positions
\* of v, is_empty() holds exactly when that number is 0, the stored indices are
\* those positions in ascending order with data[k] = v[index[k]], and
\* full_length is the length of v.
C6_NonzeroAccounting ==
    nops = 0 =>
        /\ op = "len" => n = Cardinality(NonZero(a))
        /\ op = "is_empty" => (empty <=> Cardinality(NonZero(a)) = 0)
        /\ Range(x.index) = NonZero(a)
        /\ StrictlyIncreasing(x.index)
        /\ Len(x.data) = Len(x.index)
        /\ \A k \in 1 .. Len(x.index) : x.data[k] = At(a, x.index[k])
        /\ x.full_length = Len(a)

\* len() of a gathered array that has both zero and nonzero entries
C6_Witness ==
    /\ op = "len" /\ nops = 0
    /\ n >= 2 /\ n < Len(a)

\* C7 (identity at alpha = 0): x.mul_add(y, 0) leaves x.scatter() as it was
\* before the call, also when y stores positions x does not.
C7_ZeroAlphaIdentity ==
    (op = "scatter" /\ nops >= 1 /\ alpha = 0) => full_len_v = scatter(x0)

\* a scatter after mul_add(y, 0) that made x grow by entries of y
C7_Witness ==
    /\ op = "scatter" /\ nops = 1 /\ alpha = 0
    /\ len(x) > len(x0) /\ len(x0) > 0

\* C8 (inner product after accumulate): after x = gather(a);
\* x.mul_add(gather(b), alpha), the inner product x * gather(c) is the dense
\* sum over all positions of (a[i] + alpha * b[i]) * c[i].
C8_DotAfterMulAdd ==
    (op = "mul" /\ nops = 1) => product = DenseDot(DenseAxpy(a, b, alpha), c)

\* C9 (storage layout of mul_add): after x.mul_add(y, alpha) on gathered x and
\* y, x holds its pre-call entries at the same slots in the same order, each
\* value increased by alpha times the value y stores at that index (if any),
\* followed by one entry (i, alpha * value) for each index i that y stores and
\* pre-call x did not, in the order of y; y is not modified.
C9_StorageLayout ==
    (op = "mul_add" /\ nops = 1) =>
        LET IsNew(i) == i \notin Range(x0.index)
            appended == SelectSeq(y.index, IsNew)
        IN  /\ x.index = x0.index \o appended
            /\ Len(x.data) = Len(x.index)
            /\ \A k \in 1 .. Len(x0.index) :
                   x.data[k] = x0.data[k] + alpha * Stored(y, x0.index[k])
            /\ \A k \in 1 .. Len(appended) :
                   x.data[Len(x0.index) + k] = alpha * Stored(y, appended[k])
            /\ x.full_length = x0.full_length
            /\ y = gather(b)

\* a mul_add that appended two entries, the first below a pre-call index of x
C9_Witness ==
    /\ op = "mul_add" /\ nops = 1
    /\ len(x) >= len(x0) + 2 /\ len(x0) >= 1
    /\ x.index[len(x0) + 1] < x.index[1]

\* C10 (sequence refinement): from x = gather(a), through any sequence of
\* mul_add calls with operands of the length of a, index and data have equal
\* length, the stored indices are pairwise distinct and less than full_length,
\* and x.scatter() is the dense vector obtained by d[i] += alpha_j * b_j[i].
C10_SequenceRefinement ==
    /\ Len(x.index) = Len(x.data)
    /\ Distinct(x.index)
    /\ \A k \in 1 .. Len(x.index) : x.index[k] \in 0 .. x.full_length - 1
    /\ op = "scatter" => full_len_v = d

\* a scatter after two mul_add calls, the target out of ascending order and
\* holding an explicit zero
C10_Witness ==
    /\ op = "scatter" /\ nops = 2
    /\ ~StrictlyIncreasing(x.index)
    /\ \E k \in 1 .. Len(x.data) : x.data[k] = 0
    /\ d # a

====
